---------------------------- MODULE Spec2Model ----------------------------
(***************************************************************************)
(* Model of the three scripts of ai-coding-agents-industry-analysis:       *)
(*   scripts/export_web_data.py, scripts/plot_industry_adoption.py and     *)
(*   scripts/generate_summary_stats.py.                                    *)
(*                                                                         *)
(* A parquet file is a record [exists, cols, tz, rows].  The rows keep     *)
(* their values by position (repository, timestamp, ...); cols names the   *)
(* columns, so a renamed or absent column is a fact about cols.  A call    *)
(* that can raise returns [exc, val]: exc is the Python exception's name   *)
(* or "none".                                                              *)
(*                                                                         *)
(* Time is a line of ticks, two ticks to a calendar month (the first hours *)
(* of the month, and the rest of it); a file's timestamps are wall-clock   *)
(* ticks in the file's zone, whose offset east of UTC is tz ticks.         *)
(***************************************************************************)
EXTENDS Integers, Sequences, FiniteSets, TLC

VARIABLES
    \* one run of one script over the three agents
    script, files, phase, idx, written, overview, log, uncaught,
    \* the pipeline applied to one pair of datasets
    first_use, predictions, stage, merged, web, adoption, monthly, chart,
    \* the Loader's column normalization
    columns, passes, once, twice

runVars == <<script, files, phase, idx, written, overview, log, uncaught>>
dataVars == <<first_use, predictions, stage, merged, web, adoption, monthly, chart>>
colVars == <<columns, passes, once, twice>>
vars == <<script, files, phase, idx, written, overview, log, uncaught,
          first_use, predictions, stage, merged, web, adoption, monthly, chart,
          columns, passes, once, twice>>

(***************************************************************************)
(* Bounds and value sets                                                   *)
(***************************************************************************)
MaxRows == 3
MaxTopN == 2
MaxCols == 3

Repos == {"A", "B", "C"}
\* the industry codes of the model, in the order Python sorts the strings
NaicsOrder == <<"51", "54", "62">>
Walls == {1, 2, 4}
Zones == {0, 1}

Range(s) == {s[i] : i \in 1..Len(s)}
Naics == Range(NaicsOrder)
SeqsUpTo(S, n) == UNION {[1..k -> S] : k \in 0..n}

RECURSIVE SeqSum(_)
SeqSum(s) == IF s = <<>> THEN 0 ELSE Head(s) + SeqSum(Tail(s))

Min(a, b) == IF a <= b THEN a ELSE b

Ok(v) == [exc |-> "none", val |-> v]
Raise(e) == [exc |-> e, val |-> <<>>]

(***************************************************************************)
(* Loader                                                                  *)
(***************************************************************************)
NoFile == [exists |-> FALSE, cols |-> <<>>, tz |-> 0, rows |-> <<>>]

\* DataFrame.rename(columns={old: new}): every column named old is renamed
Rename(cols, old, new) == [i \in 1..Len(cols) |-> IF cols[i] = old THEN new ELSE cols[i]]

HasCol(cols, c) == c \in Range(cols)

NormalizeBadTarget(cols) ==
    LET c1 == IF HasCol(cols, "repo_nwo") THEN Rename(cols, "repo_nwo", "nwo") ELSE cols
    IN  IF HasCol(c1, "first_claude_commit")
        THEN Rename(c1, "first_claude_commit", "repo_nwo") ELSE c1

\* the two conditional renames of the legacy column names
NormalizeColumns(cols) ==
    LET c1 == IF HasCol(cols, "repo_nwo") THEN Rename(cols, "repo_nwo", "nwo") ELSE cols
    IN  IF HasCol(c1, "first_claude_commit")
        THEN Rename(c1, "first_claude_commit", "first_use_date") ELSE c1

ToDatetimeWall(wall, tz) == wall

\* pd.to_datetime(..., utc=True): the instant, on the UTC line
ToDatetimeUtc(wall, tz) == wall - tz

\* Series.dt.to_period("M") of a UTC instant: the ordinal of its month
ToPeriod(t) == t \div 2

\* str(Period): "%Y-%m", as the pair <<year, month>>
PeriodStr(p) == <<2023 + ((p + 11) \div 12), ((p + 11) % 12) + 1>>

\* "%Y-%m" strings compare as their <<year, month>> pairs
StrLess(a, b) == a[1] < b[1] \/ (a[1] = b[1] /\ a[2] < b[2])

\* pd.read_parquet
ReadParquet(file) == IF file.exists THEN Ok(file) ELSE Raise("FileNotFoundError")

\* load_first_use (all three scripts): read, rename, parse the timestamps
LoadFirstUse(file) ==
    LET r == ReadParquet(file) IN
    IF r.exc # "none" THEN r
    ELSE LET cols == NormalizeColumns(file.cols) IN
         IF ~HasCol(cols, "first_use_date") THEN Raise("KeyError")
         ELSE Ok([cols |-> cols,
                  rows |-> [i \in 1..Len(file.rows) |->
                              [nwo |-> file.rows[i].nwo,
                               first_use_date |-> ToDatetimeUtc(file.rows[i].wall, file.tz)]]])

\* load_predictions
LoadPredictions(file) == ReadParquet(file)

(***************************************************************************)
(* Joiner                                                                  *)
(***************************************************************************)
JoinRow(l, r) ==
    [nwo |-> l.nwo, first_use_date |-> l.first_use_date, predicted_naics |-> r.naics]

RECURSIVE MatchesOf(_, _)
MatchesOf(l, right) ==
    IF right = <<>> THEN <<>>
    ELSE (IF Head(right).nwo = l.nwo THEN <<JoinRow(l, Head(right))>> ELSE <<>>)
         \o MatchesOf(l, Tail(right))

RECURSIVE LeftRows(_, _)
LeftRows(left, right) ==
    IF left = <<>> THEN <<>>
    ELSE (IF MatchesOf(Head(left), right) = <<>>
          THEN <<[nwo |-> Head(left).nwo, first_use_date |-> Head(left).first_use_date,
                  predicted_naics |-> "NaN"]>>
          ELSE MatchesOf(Head(left), right))
         \o LeftRows(Tail(left), right)

\* DataFrame.merge(on="nwo", how="inner") on the rows: every pair of a left
\* and a right row with the same nwo, in the order of the left rows
RECURSIVE InnerRows(_, _)
InnerRows(left, right) ==
    IF left = <<>> THEN <<>>
    ELSE MatchesOf(Head(left), right) \o InnerRows(Tail(left), right)

\* first_use.merge(predictions[["nwo", "predicted_naics"]], on="nwo", how="inner")
Merge(fu, pr) ==
    IF ~(HasCol(pr.cols, "nwo") /\ HasCol(pr.cols, "predicted_naics")) THEN Raise("KeyError")
    ELSE IF ~HasCol(fu.cols, "nwo") THEN Raise("KeyError")
    ELSE Ok(InnerRows(fu.rows, pr.rows))

\* export_web_data.load_and_process, before the year_month column is added
LoadAndMerge(fuFile, prFile) ==
    LET f == ReadParquet(fuFile)
        p == ReadParquet(prFile)
    IN  IF f.exc # "none" THEN f
        ELSE IF p.exc # "none" THEN p
        ELSE LET l == LoadFirstUse(fuFile) IN
             IF l.exc # "none" THEN l ELSE Merge(l.val, prFile)

\* merged["year_month"] = merged["first_use_date"].dt.to_period("M")
WithYearMonth(rows) ==
    [i \in 1..Len(rows) |->
        [nwo |-> rows[i].nwo, first_use_date |-> rows[i].first_use_date,
         predicted_naics |-> rows[i].predicted_naics,
         year_month |-> ToPeriod(rows[i].first_use_date)]]

\* export_web_data.load_and_process
load_and_process(fuFile, prFile) ==
    LET m == LoadAndMerge(fuFile, prFile) IN
    IF m.exc # "none" THEN m ELSE Ok(WithYearMonth(m.val))

\* plot_industry_adoption: load_first_use, then merge_with_predictions
merge_with_predictions(fuFile, prFile) ==
    LET l == LoadFirstUse(fuFile) IN
    IF l.exc # "none" THEN l
    ELSE LET p == ReadParquet(prFile) IN
         IF p.exc # "none" THEN p ELSE Merge(l.val, prFile)

(***************************************************************************)
(* Aggregator                                                              *)
(***************************************************************************)
MinOf(S) == CHOOSE x \in S : \A y \in S : x <= y

\* the periods of S in ascending order
RECURSIVE Ascending(_)
Ascending(S) == IF S = {} THEN <<>> ELSE <<MinOf(S)>> \o Ascending(S \ {MinOf(S)})

\* the codes of S in the order Python sorts the strings
CodeSeq(S) == SelectSeq(NaicsOrder, LAMBDA c : c \in S)

EmptyTable == [index |-> <<>>, columns |-> <<>>, cell |-> <<>>]

GroupKey(r) == <<r.year_month, r.predicted_naics>>

\* df.groupby(["year_month", "predicted_naics"]).size(): rows per present key
GroupSize(rows) ==
    [k \in {GroupKey(rows[i]) : i \in 1..Len(rows)} |->
        Cardinality({i \in 1..Len(rows) : GroupKey(rows[i]) = k})]

\* .unstack(fill_value=0): months down, industries across, absent pairs 0
Unstack(g) ==
    LET ms == {k[1] : k \in DOMAIN g}
        cs == {k[2] : k \in DOMAIN g}
    IN  [index |-> Ascending(ms), columns |-> CodeSeq(cs),
         cell |-> [m \in ms, c \in cs |-> IF <<m, c>> \in DOMAIN g THEN g[<<m, c>>] ELSE 0]]

\* DataFrame.sort_index()
SortIndex(t) == [t EXCEPT !.index = Ascending(Range(t.index))]

\* the counting common to generate_cumulative_data and aggregate_by_month_industry
MonthlyTable(rows) == SortIndex(Unstack(GroupSize(rows)))

\* plot_industry_adoption.aggregate_by_month_industry
aggregate_by_month_industry(rows) == MonthlyTable(WithYearMonth(rows))

\* one column of a table, down the index
Column(t, c) == [i \in 1..Len(t.index) |-> t.cell[t.index[i], c]]

CumsumNone(t) == t

\* DataFrame.cumsum(): running sums down the index, column by column
Cumsum(t) ==
    [t EXCEPT !.cell =
        [m \in Range(t.index), c \in Range(t.columns) |->
            LET i == CHOOSE k \in 1..Len(t.index) : t.index[k] = m
            IN  SeqSum(SubSeq(Column(t, c), 1, i))]]

\* generate_summary_stats: load_predictions, load_first_use, then the merge
SummaryMerge(fuFile, prFile) ==
    LET p == LoadPredictions(prFile) IN
    IF p.exc # "none" THEN p
    ELSE LET l == LoadFirstUse(fuFile) IN
         IF l.exc # "none" THEN l ELSE Merge(l.val, prFile)

\* merged.groupby("month").size(): the rows of each month that has one
MonthSize(rows) ==
    [m \in {rows[i].year_month : i \in 1..Len(rows)} |->
        Cardinality({i \in 1..Len(rows) : rows[i].year_month = m})]

RunningTotalNone(counts) == counts

\* Series.cumsum()
RunningTotal(counts) == [i \in 1..Len(counts) |-> SeqSum(SubSeq(counts, 1, i))]

\* generate_summary_stats.generate_monthly_adoption: one row per month, in
\* the order of the months, with the month as its "%Y-%m" string
generate_monthly_adoption(fuFile, prFile) ==
    LET m == SummaryMerge(fuFile, prFile) IN
    IF m.exc # "none" THEN m
    ELSE LET g == MonthSize(WithYearMonth(m.val))
             ms == Ascending(DOMAIN g)
             new == [i \in 1..Len(ms) |-> g[ms[i]]]
             cum == RunningTotal(new)
         IN  Ok([i \in 1..Len(ms) |->
                   [month |-> PeriodStr(ms[i]), new_repos |-> new[i],
                    cumulative_repos |-> cum[i]]])

(***************************************************************************)
(* Presenter: the JSON structure of export_web_data                        *)
(***************************************************************************)
FinalValue(e) == e.values[Len(e.values)]

\* e goes behind every entry whose key is at least its own (a stable sort)
RECURSIVE InsertDesc(_, _)
InsertDesc(e, s) ==
    IF s = <<>> THEN <<e>>
    ELSE IF FinalValue(Head(s)) >= FinalValue(e) THEN <<Head(s)>> \o InsertDesc(e, Tail(s))
    ELSE <<e>> \o s

RECURSIVE SortByFinalAsc(_)
SortByFinalAsc(s) ==
    IF s = <<>> THEN <<>>
    ELSE LET rest == SortByFinalAsc(SubSeq(s, 1, Len(s) - 1))
             e == s[Len(s)]
             k == Cardinality({i \in 1..Len(rest) : FinalValue(rest[i]) <= FinalValue(e)})
         IN  SubSeq(rest, 1, k) \o <<e>> \o SubSeq(rest, k + 1, Len(rest))

\* industries.sort(key=lambda x: x["values"][-1], reverse=True)
RECURSIVE SortByFinalDesc(_)
SortByFinalDesc(s) ==
    IF s = <<>> THEN <<>>
    ELSE InsertDesc(s[Len(s)], SortByFinalDesc(SubSeq(s, 1, Len(s) - 1)))

\* the loop over cumulative.columns that builds the industries list
IndustryEntries(mt, cum) ==
    [j \in 1..Len(cum.columns) |->
        [code |-> cum.columns[j],
         values |-> Column(cum, cum.columns[j]),
         monthly |-> Column(mt, cum.columns[j])]]

TotalOfFirstRow(cum) ==
    SeqSum([j \in 1..Len(cum.columns) |-> cum.cell[cum.index[1], cum.columns[j]]])

\* int(cumulative.iloc[-1].sum())
TotalOfLastRow(cum) ==
    SeqSum([j \in 1..Len(cum.columns) |-> cum.cell[cum.index[Len(cum.index)], cum.columns[j]]])

\* export_web_data.generate_cumulative_data
generate_cumulative_data(fuFile, prFile) ==
    LET df == load_and_process(fuFile, prFile) IN
    IF df.exc # "none" THEN df
    ELSE LET mt == MonthlyTable(df.val)
             cum == Cumsum(mt)
         IN  IF cum.index = <<>> THEN Raise("IndexError")
             ELSE Ok([months |-> [i \in 1..Len(cum.index) |-> PeriodStr(cum.index[i])],
                      industries |-> SortByFinalDesc(IndustryEntries(mt, cum)),
                      total_repos |-> TotalOfLastRow(cum)])

(***************************************************************************)
(* Presenter: the stacked-area chart of plot_industry_adoption             *)
(***************************************************************************)
\* data.sum(): the total of one industry over all months
ColumnTotal(t, c) == SeqSum(Column(t, c))

\* data.sum().sort_values(ascending=False): the industries by descending
\* total.  The sort is not stable, so industries with equal totals may come
\* out in any order: every descending order is a possible outcome.
DescOrders(t) ==
    {o \in [1..Len(t.columns) -> Range(t.columns)] :
        /\ \A i, j \in 1..Len(t.columns) : i # j => o[i] # o[j]
        /\ \A i \in 1..(Len(t.columns) - 1) :
              ColumnTotal(t, o[i]) >= ColumnTotal(t, o[i + 1])}

\* industry_totals.head(top_n).index.tolist()
TopIndustries(order, top_n) == SubSeq(order, 1, Min(top_n, Len(order)))

\* PeriodIndex.to_timestamp(): the first tick of the month
ToTimestamp(p) == 2 * p

DataWithOther(data, top) ==
    LET others == SelectSeq(data.columns, LAMBDA c : c \notin Range(top)) IN
    IF others = <<>> THEN data
    ELSE [index |-> data.index, columns |-> data.columns \o <<"Other">>,
          cell |-> [m \in Range(data.index), c \in Range(data.columns) \cup {"Other"} |->
                      IF c = "Other"
                      THEN SeqSum([j \in 1..Len(others) |-> data.cell[m, others[j]]])
                      ELSE data.cell[m, c]]]

\* what plot_stacked_area leaves in its argument: it works on the copy
\* data[top_industries].copy()
DataAfterPlot(data, top) == data

\* plot_data: the top industries' columns, the rest summed into "Other",
\* the index turned into timestamps
PlotData(data, top) ==
    LET others == SelectSeq(data.columns, LAMBDA c : c \notin Range(top))
        cols == IF others # <<>> THEN top \o <<"Other">> ELSE top
    IN  [index |-> [i \in 1..Len(data.index) |-> ToTimestamp(data.index[i])],
         columns |-> cols,
         cell |-> [ts \in {ToTimestamp(m) : m \in Range(data.index)}, c \in Range(cols) |->
                     LET m == CHOOSE q \in Range(data.index) : ToTimestamp(q) = ts IN
                     IF c = "Other"
                     THEN SeqSum([j \in 1..Len(others) |-> data.cell[m, others[j]]])
                     ELSE data.cell[m, c]]]

\* plot_stacked_area(data, title, output_path, top_n), with the order the
\* sort of the totals came out in.  An empty table has nothing to plot.
plot_stacked_area(data, top_n, order) ==
    LET top == TopIndustries(order, top_n) IN
    IF data.columns = <<>>
    THEN [exc |-> "TypeError", data |-> data, plot_data |-> EmptyTable]
    ELSE [exc |-> "none", data |-> DataAfterPlot(data, top), plot_data |-> PlotData(data, top)]

(***************************************************************************)
(* The pipeline on one pair of datasets                                    *)
(***************************************************************************)
ReposOrder == <<"A", "B", "C">>
FuCols == <<"nwo", "first_use_date">>
LegacyFuCols == <<"repo_nwo", "first_claude_commit">>
PrCols == <<"nwo", "predicted_naics", "confidence">>

FuFile(cols, tz, rows) == [exists |-> TRUE, cols |-> cols, tz |-> tz, rows |-> rows]
PrFile(cols, rows) == [exists |-> TRUE, cols |-> cols, tz |-> 0, rows |-> rows]

\* repository identifiers are unique within a dataset
UniqueNwo(rows) == \A i, j \in 1..Len(rows) : rows[i].nwo = rows[j].nwo => i = j

\* first-use datasets with one row per repository at most, in any order
FirstUseFiles ==
    {FuFile(FuCols, tz, rows) :
        tz \in Zones,
        rows \in {r \in SeqsUpTo([nwo : Repos, wall : Walls], MaxRows) : UniqueNwo(r)}}

\* predictions datasets with one row per repository at most; the order of
\* their rows does not reach the join, which follows the first-use rows
UniquePredictions ==
    {LET present == SelectSeq(ReposOrder, LAMBDA r : f[r] # "-")
     IN  PrFile(PrCols, [i \in 1..Len(present) |->
                           [nwo |-> present[i], naics |-> f[present[i]]]]) :
        f \in [Repos -> Naics \cup {"-"}]}

\* datasets that may repeat repositories, on either side
RepeatingFirstUse ==
    {FuFile(LegacyFuCols, 1, rows) : rows \in SeqsUpTo([nwo : Repos, wall : {1, 4}], MaxRows)}
RepeatingPredictions ==
    {PrFile(PrCols, rows) : rows \in SeqsUpTo([nwo : Repos, naics : {"54"}], MaxRows)}

NoChart == [exc |-> "none", top_n |-> 0, plot_data |-> EmptyTable]

NoRun ==
    /\ script = "none" /\ files = <<>> /\ phase = "none" /\ idx = 0
    /\ written = {} /\ overview = <<>> /\ log = <<>> /\ uncaught = "none"
NoData ==
    /\ first_use = NoFile /\ predictions = NoFile /\ stage = "none"
    /\ merged = Raise("none") /\ web = Raise("none") /\ adoption = Raise("none")
    /\ monthly = EmptyTable /\ chart = NoChart
NoCols == columns = <<>> /\ passes = 0 /\ once = <<>> /\ twice = <<>>

InitData ==
    /\ NoRun /\ NoCols
    /\ \/ first_use \in FirstUseFiles /\ predictions \in UniquePredictions
       \/ first_use \in RepeatingFirstUse /\ predictions \in RepeatingPredictions
    /\ stage = "input"
    /\ merged = Raise("none") /\ web = Raise("none") /\ adoption = Raise("none")
    /\ monthly = EmptyTable /\ chart = NoChart

\* export_web_data: load_and_process on the pair
LoadAndProcess ==
    /\ stage = "input"
    /\ merged' = load_and_process(first_use, predictions)
    /\ stage' = "merged"
    /\ UNCHANGED <<first_use, predictions, web, adoption, monthly, chart, runVars, colVars>>

\* export_web_data: generate_cumulative_data on the pair
GenerateCumulativeData ==
    /\ stage = "merged"
    /\ web' = generate_cumulative_data(first_use, predictions)
    /\ stage' = "exported"
    /\ UNCHANGED <<first_use, predictions, merged, adoption, monthly, chart, runVars, colVars>>

\* generate_summary_stats: generate_monthly_adoption on the pair
GenerateMonthlyAdoption ==
    /\ stage = "exported"
    /\ adoption' = generate_monthly_adoption(first_use, predictions)
    /\ stage' = "summarized"
    /\ UNCHANGED <<first_use, predictions, merged, web, monthly, chart, runVars, colVars>>

\* plot_industry_adoption: load, merge and aggregate_by_month_industry
AggregateByMonthIndustry ==
    /\ stage = "summarized"
    /\ LET m == merge_with_predictions(first_use, predictions) IN
       monthly' = IF m.exc = "none" THEN aggregate_by_month_industry(m.val) ELSE EmptyTable
    /\ stage' = "aggregated"
    /\ UNCHANGED <<first_use, predictions, merged, web, adoption, chart, runVars, colVars>>

\* plot_industry_adoption: plot_stacked_area on the aggregated table
PlotStackedArea ==
    /\ stage = "aggregated"
    /\ \E top_n \in 1..MaxTopN, order \in DescOrders(monthly) :
          LET r == plot_stacked_area(monthly, top_n, order) IN
          /\ monthly' = r.data
          /\ chart' = [exc |-> r.exc, top_n |-> top_n, plot_data |-> r.plot_data]
    /\ stage' = "plotted"
    /\ UNCHANGED <<first_use, predictions, merged, web, adoption, runVars, colVars>>

NextData ==
    \/ LoadAndProcess
    \/ GenerateCumulativeData
    \/ GenerateMonthlyAdoption
    \/ AggregateByMonthIndustry
    \/ PlotStackedArea

SpecData == InitData /\ [][NextData]_vars

(***************************************************************************)
(* The column normalization applied to its own output                      *)
(***************************************************************************)
ColNames == {"repo_nwo", "nwo", "first_claude_commit", "first_use_date", "stars"}

InitCols ==
    /\ NoRun /\ NoData
    /\ columns \in SeqsUpTo(ColNames, MaxCols)
    /\ passes = 0 /\ once = <<>> /\ twice = <<>>

\* the renames of load_first_use on the columns as read
NormalizeOnce ==
    /\ passes = 0
    /\ once' = NormalizeColumns(columns)
    /\ passes' = 1
    /\ UNCHANGED <<columns, twice, runVars, dataVars>>

\* the same renames on the columns they produced
NormalizeTwice ==
    /\ passes = 1
    /\ twice' = NormalizeColumns(once)
    /\ passes' = 2
    /\ UNCHANGED <<columns, once, runVars, dataVars>>

NextCols == NormalizeOnce \/ NormalizeTwice

SpecCols == InitCols /\ [][NextCols]_vars

(***************************************************************************)
(* One run of one script over the three agents                             *)
(***************************************************************************)
\* the agents list of every main loop, in its fixed order
Agents == <<"claude", "copilot", "codex">>
Scripts == {"export_web_data", "plot_industry_adoption", "generate_summary_stats"}

\* top_n: int = 10, the default process_agent plots with
DefaultTopN == 10

\* the datasets a run may find on disk for an agent: absent, canonical,
\* under the legacy column names, without a timestamp column
RunFirstUse ==
    {NoFile,
     FuFile(FuCols, 0, <<[nwo |-> "A", wall |-> 2], [nwo |-> "B", wall |-> 4]>>),
     FuFile(LegacyFuCols, 1, <<[nwo |-> "A", wall |-> 2]>>),
     FuFile(<<"nwo", "date">>, 0, <<[nwo |-> "A", wall |-> 2]>>)}

\* absent, with and without confidence scores, about other repositories
\* only, without the predicted_naics column
RunPredictions ==
    {NoFile,
     PrFile(PrCols, <<[nwo |-> "A", naics |-> "54"], [nwo |-> "B", naics |-> "62"]>>),
     PrFile(<<"nwo", "predicted_naics">>, <<[nwo |-> "A", naics |-> "54"]>>),
     PrFile(PrCols, <<[nwo |-> "C", naics |-> "51"]>>),
     PrFile(<<"nwo", "naics", "confidence">>, <<[nwo |-> "A", naics |-> "54"]>>)}

Artifact(kind, a) == [kind |-> kind, agent |-> a]

WrittenAlways(kind, a, r) == {Artifact(kind, a)}

\* the write is the statement after the call in the try body: it runs when
\* the call returned
WrittenBy(kind, a, r) == IF r.exc = "none" THEN {Artifact(kind, a)} ELSE {}

CatchesNothing(exc) == FALSE

\* except Exception as e (export_web_data.main)
ExportCatches(exc) == TRUE

\* except FileNotFoundError as e (plot_industry_adoption.main)
PlotCatches(exc) == exc = "FileNotFoundError"

\* except Exception as e (generate_summary_stats)
SummaryCatches(exc) == TRUE

\* plot_industry_adoption.process_agent: load, merge, aggregate, plot
process_agent(fuFile, prFile, order) ==
    LET m == merge_with_predictions(fuFile, prFile) IN
    IF m.exc # "none" THEN m
    ELSE LET p == plot_stacked_area(aggregate_by_month_industry(m.val), DefaultTopN, order)
         IN  IF p.exc # "none" THEN Raise(p.exc) ELSE m

\* the body of generate_overview_table's loop: the row of one agent
OverviewRow(a, fuFile, prFile) ==
    LET m == SummaryMerge(fuFile, prFile) IN
    IF m.exc # "none" THEN m
    ELSE IF m.val = <<>> THEN Raise("ValueError")
    ELSE Ok([Agent |-> a, predictions |-> Len(prFile.rows),
             first_use |-> Len(fuFile.rows), merged |-> Len(m.val)])

\* generate_industry_breakdown: a table, empty when the merge is
generate_industry_breakdown(fuFile, prFile) == SummaryMerge(fuFile, prFile)

\* generate_confidence_stats: from the predictions alone; an empty frame
\* when they carry no confidence column
generate_confidence_stats(prFile) ==
    LET p == LoadPredictions(prFile) IN
    IF p.exc # "none" THEN p
    ELSE Ok([empty |-> ~HasCol(prFile.cols, "confidence")])

AgentFiles == [first_use : RunFirstUse, predictions : RunPredictions]

FirstPhase(s) == IF s = "generate_summary_stats" THEN "overview" ELSE "loop"

InitRun ==
    /\ NoData /\ NoCols
    /\ script \in Scripts
    /\ files \in [Range(Agents) -> AgentFiles]
    /\ phase = FirstPhase(script)
    /\ idx = 1
    /\ written = {} /\ overview = <<>> /\ log = <<>> /\ uncaught = "none"

LogEntry(a, exc) == [phase |-> phase, agent |-> a, exc |-> exc]

\* the end of one iteration of a for loop over agents that leads to `after`
Advance(after) ==
    IF idx < Len(Agents) THEN idx' = idx + 1 /\ phase' = phase
    ELSE idx' = 1 /\ phase' = after

\* export_web_data.main: one iteration of the loop
ExportAgent ==
    /\ script = "export_web_data" /\ phase = "loop"
    /\ LET a == Agents[idx]
           r == generate_cumulative_data(files[a].first_use, files[a].predictions)
       IN  /\ written' = written \cup WrittenBy("cumulative.json", a, r)
           /\ log' = Append(log, LogEntry(a, r.exc))
           /\ IF r.exc = "none" \/ ExportCatches(r.exc)
              THEN Advance("done") /\ uncaught' = uncaught
              ELSE idx' = idx /\ phase' = "crashed" /\ uncaught' = r.exc
    /\ UNCHANGED <<script, files, overview, dataVars, colVars>>

\* plot_industry_adoption.main: one iteration of the loop
PlotAgent ==
    /\ script = "plot_industry_adoption" /\ phase = "loop"
    /\ LET a == Agents[idx]
           m == merge_with_predictions(files[a].first_use, files[a].predictions)
           t == IF m.exc = "none" THEN aggregate_by_month_industry(m.val) ELSE EmptyTable
       IN  \E order \in DescOrders(t) :
           LET r == process_agent(files[a].first_use, files[a].predictions, order) IN
           /\ written' = written \cup WrittenBy("industry_adoption.png", a, r)
           /\ log' = Append(log, LogEntry(a, r.exc))
           /\ IF r.exc = "none" \/ PlotCatches(r.exc)
              THEN Advance("done") /\ uncaught' = uncaught
              ELSE idx' = idx /\ phase' = "crashed" /\ uncaught' = r.exc
    /\ UNCHANGED <<script, files, overview, dataVars, colVars>>

\* generate_overview_table: one iteration; after the last one main writes
\* overview.csv
OverviewAgent ==
    /\ script = "generate_summary_stats" /\ phase = "overview"
    /\ LET a == Agents[idx]
           r == OverviewRow(a, files[a].first_use, files[a].predictions)
       IN  /\ overview' = IF r.exc = "none" THEN Append(overview, r.val) ELSE overview
           /\ written' = IF idx = Len(Agents)
                         THEN written \cup {Artifact("overview.csv", "all")} ELSE written
           /\ log' = Append(log, LogEntry(a, r.exc))
           /\ IF r.exc = "none" \/ SummaryCatches(r.exc)
              THEN Advance("breakdown") /\ uncaught' = uncaught
              ELSE idx' = idx /\ phase' = "crashed" /\ uncaught' = r.exc
    /\ UNCHANGED <<script, files, dataVars, colVars>>

\* generate_summary_stats.main: one iteration of the industry breakdown loop
BreakdownAgent ==
    /\ script = "generate_summary_stats" /\ phase = "breakdown"
    /\ LET a == Agents[idx]
           r == generate_industry_breakdown(files[a].first_use, files[a].predictions)
       IN  /\ written' = written \cup WrittenBy("industry_breakdown.csv", a, r)
           /\ log' = Append(log, LogEntry(a, r.exc))
           /\ IF r.exc = "none" \/ SummaryCatches(r.exc)
              THEN Advance("monthly") /\ uncaught' = uncaught
              ELSE idx' = idx /\ phase' = "crashed" /\ uncaught' = r.exc
    /\ UNCHANGED <<script, files, overview, dataVars, colVars>>

\* generate_summary_stats.main: one iteration of the monthly adoption loop
MonthlyAgent ==
    /\ script = "generate_summary_stats" /\ phase = "monthly"
    /\ LET a == Agents[idx]
           r == generate_monthly_adoption(files[a].first_use, files[a].predictions)
       IN  /\ written' = written \cup WrittenBy("monthly_adoption.csv", a, r)
           /\ log' = Append(log, LogEntry(a, r.exc))
           /\ IF r.exc = "none" \/ SummaryCatches(r.exc)
              THEN Advance("confidence") /\ uncaught' = uncaught
              ELSE idx' = idx /\ phase' = "crashed" /\ uncaught' = r.exc
    /\ UNCHANGED <<script, files, overview, dataVars, colVars>>

\* generate_summary_stats.main: one iteration of the confidence loop; the
\* file is written when the statistics frame is not empty
ConfidenceAgent ==
    /\ script = "generate_summary_stats" /\ phase = "confidence"
    /\ LET a == Agents[idx]
           r == generate_confidence_stats(files[a].predictions)
       IN  /\ written' = IF r.exc = "none" /\ ~r.val.empty
                         THEN written \cup WrittenBy("confidence_stats.csv", a, r)
                         ELSE written
           /\ log' = Append(log, LogEntry(a, r.exc))
           /\ IF r.exc = "none" \/ SummaryCatches(r.exc)
              THEN Advance("done") /\ uncaught' = uncaught
              ELSE idx' = idx /\ phase' = "crashed" /\ uncaught' = r.exc
    /\ UNCHANGED <<script, files, overview, dataVars, colVars>>

NextRun ==
    \/ ExportAgent
    \/ PlotAgent
    \/ OverviewAgent
    \/ BreakdownAgent
    \/ MonthlyAgent
    \/ ConfidenceAgent

SpecRun == InitRun /\ [][NextRun]_vars

(***************************************************************************)
(* What the claims speak of, stated on the datasets as they are on disk    *)
(***************************************************************************)
\* repository identifiers are unique within each dataset
ValidInputs == UniqueNwo(first_use.rows) /\ UniqueNwo(predictions.rows)

\* the wall-clock tick, in a zone tz ticks east of UTC, lies in UTC month m
InUtcMonth(wall, tz, m) == 2 * m <= wall - tz /\ wall - tz < 2 * (m + 1)

\* the pairs of a first-use row and a prediction row of one repository
JoinedPairs ==
    {q \in (1..Len(first_use.rows)) \X (1..Len(predictions.rows)) :
        first_use.rows[q[1]].nwo = predictions.rows[q[2]].nwo}

OfIndustry(c) == {q \in JoinedPairs : predictions.rows[q[2]].naics = c}
OfMonth(m) == {q \in JoinedPairs : InUtcMonth(first_use.rows[q[1]].wall, first_use.tz, m)}
CountOf(m, c) == Cardinality(OfMonth(m) \cap OfIndustry(c))
CountUpTo(m, c) == Cardinality({q \in OfIndustry(c) : \E k \in 0..m : q \in OfMonth(k)})

\* the months a tick of the model can lie in
Months == 0..4
MonthOfStr(str) == CHOOSE m \in Months : PeriodStr(m) = str

\* generate_cumulative_data has just returned its result; the table of
\* aggregate_by_month_industry has just been built
Exported == stage = "exported" /\ web.exc = "none"
Aggregated == stage = "aggregated"

\* the loops over the agents of a script: each is the guard of its action
LoopsOf(s) ==
    IF s = "generate_summary_stats" THEN {"overview", "breakdown", "monthly", "confidence"}
    ELSE {"loop"}

\* a dataset file of agent a is missing
MissingFile(a) == ~files[a].first_use.exists \/ ~files[a].predictions.exists
PositionOf(a) == CHOOSE i \in 1..Len(Agents) : Agents[i] = a
ArtifactsOf(a) == {w \in written : w.agent = a}
RowsOf(a) == {i \in 1..Len(overview) : overview[i].Agent = a}

\* C1: in every main loop the FileNotFoundError of a missing dataset file
\* is caught for its agent: it never leaves main, the agent after it in
\* claude, copilot, codex is processed next in the same loop (after codex
\* the loop is left for what follows it), and a run that has not ended
\* stands before an iteration of a loop of its script, which can be taken.
\* FileNotFoundError is raised only for an agent with a missing file, and
\* always when both its files are missing.
C1_MissingFileIsolated ==
    /\ uncaught # "FileNotFoundError"
    /\ \A i \in 1..Len(log) :
          /\ log[i].exc = "FileNotFoundError" => MissingFile(log[i].agent)
          /\ (~files[log[i].agent].first_use.exists /\ ~files[log[i].agent].predictions.exists)
                => log[i].exc = "FileNotFoundError"
          /\ log[i].exc = "FileNotFoundError" =>
                IF PositionOf(log[i].agent) < Len(Agents)
                THEN IF i < Len(log)
                     THEN /\ log[i + 1].phase = log[i].phase
                          /\ log[i + 1].agent = Agents[PositionOf(log[i].agent) + 1]
                     ELSE /\ phase = log[i].phase
                          /\ idx = PositionOf(log[i].agent) + 1
                ELSE i = Len(log) => phase \notin {log[i].phase, "crashed"}
    /\ phase \notin {"done", "crashed"} =>
          /\ idx \in 1..Len(Agents)
          /\ phase \in LoopsOf(script)
    /\ phase = "crashed" => uncaught \notin {"none", "FileNotFoundError"}

\* plot_industry_adoption ran to its end past claude's missing file and
\* drew the charts of copilot and codex
C1_Witness ==
    /\ script = "plot_industry_adoption" /\ phase = "done" /\ uncaught = "none"
    /\ MissingFile("claude")
    /\ Len(log) = 3 /\ log[1].exc = "FileNotFoundError"
    /\ written = {Artifact("industry_adoption.png", "copilot"),
                  Artifact("industry_adoption.png", "codex")}

\* C2: a failure of one agent that is not a missing file (an absent column,
\* an empty join) is caught at the per-agent boundary in every script: no
\* exception leaves main, and the run is not cut short.
C2_EveryFailureCaught == uncaught = "none" /\ phase # "crashed"

\* C3 as claimed: an agent with a missing input file gets no output artifact
\* and no overview row.
C3_NoOutputWhenInputMissing ==
    \A a \in Range(Agents) : MissingFile(a) => ArtifactsOf(a) = {} /\ RowsOf(a) = {}

\* C3, amended: an agent whose predictions file is missing gets no output
\* artifact and no overview row; an agent of which only the first-use file
\* is missing gets none but confidence_stats_<agent>.csv, which is computed
\* from the predictions file alone.
C3_NoOutputButConfidence ==
    \A a \in Range(Agents) :
        /\ ~files[a].predictions.exists => ArtifactsOf(a) = {} /\ RowsOf(a) = {}
        /\ ~files[a].first_use.exists =>
              /\ ArtifactsOf(a) \subseteq {Artifact("confidence_stats.csv", a)}
              /\ RowsOf(a) = {}

\* generate_summary_stats ended: claude, without a first-use file, has its
\* confidence statistics only; copilot, without predictions, has nothing;
\* codex has everything
C3_Witness ==
    /\ script = "generate_summary_stats" /\ phase = "done"
    /\ ~files["claude"].first_use.exists /\ ~files["copilot"].predictions.exists
    /\ ArtifactsOf("claude") = {Artifact("confidence_stats.csv", "claude")}
    /\ ArtifactsOf("copilot") = {}
    /\ Cardinality(ArtifactsOf("codex")) = 3
    /\ Len(overview) = 1 /\ overview[1].Agent = "codex"

\* C4: on inputs whose repository identifiers are unique within each dataset,
\* the inner join on nwo has at most min(|first-use rows|, |prediction rows|)
\* rows; and every joined row's nwo occurs in both inputs.
C4_JoinBounded ==
    (stage = "merged" /\ merged.exc = "none") =>
        /\ \A i \in 1..Len(merged.val) :
              /\ \E a \in 1..Len(first_use.rows) : first_use.rows[a].nwo = merged.val[i].nwo
              /\ \E b \in 1..Len(predictions.rows) : predictions.rows[b].nwo = merged.val[i].nwo
        /\ ValidInputs =>
              Len(merged.val) <= Min(Len(first_use.rows), Len(predictions.rows))

\* a join of valid inputs that drops a first-use row and a prediction row
C4_Witness ==
    /\ stage = "merged" /\ merged.exc = "none" /\ ValidInputs
    /\ Len(first_use.rows) = 2 /\ Len(predictions.rows) = 2 /\ Len(merged.val) = 1

\* C5: in the result of generate_cumulative_data the months are in ascending
\* order, every industry's values array is non-decreasing along them, and its
\* last element is the number of joined records of that industry.
C5_CumulativeMonotone ==
    Exported =>
        /\ \A k \in 1..(Len(web.val.months) - 1) :
              StrLess(web.val.months[k], web.val.months[k + 1])
        /\ \A j \in 1..Len(web.val.industries) :
              LET e == web.val.industries[j] IN
              /\ Len(e.values) = Len(web.val.months)
              /\ \A k \in 1..(Len(e.values) - 1) : e.values[k] <= e.values[k + 1]
              /\ e.values[Len(e.values)] = Cardinality(OfIndustry(e.code))

\* an industry that grows from one month to the next, across the new year
C5_Witness ==
    /\ Exported /\ ValidInputs
    /\ web.val.months = <<(<<2023, 12>>), (<<2024, 1>>), (<<2024, 2>>)>>
    /\ \E j \in 1..Len(web.val.industries) : web.val.industries[j].values = <<0, 1, 2>>

\* C6: total_repos is the sum over the industries of the final cumulative
\* value, and it is the number of rows load_and_process returned.
C6_TotalIsJoinedCount ==
    Exported =>
        /\ web.val.total_repos =
              SeqSum([j \in 1..Len(web.val.industries) |->
                         FinalValue(web.val.industries[j])])
        /\ merged.exc = "none"
        /\ web.val.total_repos = Len(merged.val)

\* three joined rows in two industries over two months
C6_Witness ==
    /\ Exported /\ ValidInputs /\ web.val.total_repos = 3 /\ Len(merged.val) = 3
    /\ Len(web.val.industries) = 2 /\ Len(web.val.months) = 2

\* C7: the monthly count reported for a (month, industry) pair, by the JSON
\* structure and by the pivot table, is the number of joined records whose
\* first-use timestamp lies in that UTC month and whose industry is that
\* code; a pair that is not reported has no such record in a reported month
\* or industry, and a month or industry with a record is reported.
C7_MonthlyCounts ==
    /\ Exported =>
          /\ \A j \in 1..Len(web.val.industries), k \in 1..Len(web.val.months) :
                web.val.industries[j].monthly[k] =
                    CountOf(MonthOfStr(web.val.months[k]), web.val.industries[j].code)
          /\ \A m \in Months, c \in Naics :
                CountOf(m, c) > 0 =>
                    /\ \E k \in 1..Len(web.val.months) : web.val.months[k] = PeriodStr(m)
                    /\ \E j \in 1..Len(web.val.industries) : web.val.industries[j].code = c
    /\ Aggregated =>
          /\ \A m \in Range(monthly.index), c \in Range(monthly.columns) :
                monthly.cell[m, c] = CountOf(m, c)
          /\ \A m \in Months, c \in Naics :
                CountOf(m, c) > 0 => m \in Range(monthly.index) /\ c \in Range(monthly.columns)

\* the example: A and B first used in 2024-01, C in 2024-02, A and B
\* predicted 54, C predicted 62
C7_Witness ==
    /\ Aggregated
    /\ first_use.tz = 0
    /\ first_use.rows = <<[nwo |-> "A", wall |-> 2], [nwo |-> "B", wall |-> 2],
                          [nwo |-> "C", wall |-> 4]>>
    /\ predictions.rows = <<[nwo |-> "A", naics |-> "54"], [nwo |-> "B", naics |-> "54"],
                            [nwo |-> "C", naics |-> "62"]>>
    /\ web = Ok([months |-> <<(<<2024, 1>>), (<<2024, 2>>)>>,
                 industries |-> <<[code |-> "54", values |-> <<2, 2>>, monthly |-> <<2, 0>>],
                                  [code |-> "62", values |-> <<0, 1>>, monthly |-> <<0, 1>>]>>,
                 total_repos |-> 3])
    /\ monthly.index = <<1, 2>> /\ monthly.columns = <<"54", "62">>
    /\ monthly.cell[1, "54"] = 2 /\ monthly.cell[1, "62"] = 0
    /\ monthly.cell[2, "54"] = 0 /\ monthly.cell[2, "62"] = 1

\* C9: the industries list is ordered by descending final cumulative value,
\* holds each industry once, and each entry's monthly and values arrays are
\* the counts and the running counts of the entry's own code.
C9_IndustriesSorted ==
    Exported =>
        /\ \A j \in 1..(Len(web.val.industries) - 1) :
              FinalValue(web.val.industries[j]) >= FinalValue(web.val.industries[j + 1])
        /\ \A i, j \in 1..Len(web.val.industries) :
              web.val.industries[i].code = web.val.industries[j].code => i = j
        /\ \A j \in 1..Len(web.val.industries), k \in 1..Len(web.val.months) :
              LET e == web.val.industries[j]
                  m == MonthOfStr(web.val.months[k])
              IN  /\ e.monthly[k] = CountOf(m, e.code)
                  /\ e.values[k] = CountUpTo(m, e.code)

\* the sort moves 62, the larger industry, in front of 51
C9_Witness ==
    /\ Exported /\ ValidInputs
    /\ Len(web.val.industries) = 2 /\ Len(web.val.months) = 2
    /\ web.val.industries[1].code = "62" /\ web.val.industries[1].values = <<1, 2>>
    /\ web.val.industries[2].code = "51" /\ web.val.industries[2].values = <<1, 1>>

Plotted == stage = "plotted" /\ chart.exc = "none"
Individual == SelectSeq(chart.plot_data.columns, LAMBDA c : c # "Other")
RowSum(t, m) == SeqSum([j \in 1..Len(t.columns) |-> t.cell[m, t.columns[j]]])

\* C10: plot_stacked_area plots min(top_n, number of industries) industries
\* individually, none of them with a smaller total than an industry it does
\* not plot individually, each with its own counts; an "Other" series exists
\* exactly when there are more than top_n industries; in every month the
\* plotted series sum to the month's total over all industries; and the
\* pivot table is the one aggregate_by_month_industry returned.
C10_TopNAndOther ==
    Plotted =>
        LET pd == chart.plot_data IN
        /\ Len(Individual) = Min(chart.top_n, Len(monthly.columns))
        /\ Range(Individual) \subseteq Range(monthly.columns)
        /\ \A c \in Range(Individual), d \in Range(monthly.columns) \ Range(Individual) :
              ColumnTotal(monthly, c) >= ColumnTotal(monthly, d)
        /\ ("Other" \in Range(pd.columns)) <=> (Len(monthly.columns) > chart.top_n)
        /\ Len(pd.index) = Len(monthly.index)
        /\ \A i \in 1..Len(monthly.index) :
              /\ pd.index[i] = ToTimestamp(monthly.index[i])
              /\ RowSum(pd, pd.index[i]) = RowSum(monthly, monthly.index[i])
              /\ \A c \in Range(Individual) :
                    pd.cell[pd.index[i], c] = monthly.cell[monthly.index[i], c]
        /\ monthly.index = Ascending(Range(monthly.index))
        /\ \A m \in Range(monthly.index), c \in Range(monthly.columns) :
              monthly.cell[m, c] = CountOf(m, c)
        /\ "Other" \notin Range(monthly.columns)

\* two of three industries are merged into "Other"
C10_Witness ==
    /\ Plotted /\ ValidInputs /\ chart.top_n = 1
    /\ monthly.columns = <<"51", "54", "62">> /\ Len(monthly.index) = 2
    /\ chart.plot_data.columns = <<"54", "Other">>
    /\ chart.plot_data.index = <<2, 4>>
    /\ chart.plot_data.cell[2, "54"] = 0 /\ chart.plot_data.cell[2, "Other"] = 1
    /\ chart.plot_data.cell[4, "54"] = 1 /\ chart.plot_data.cell[4, "Other"] = 1

\* C8: the column normalization is idempotent: applied to its own output it
\* returns that output, whatever the input columns.
C8_NormalizeIdempotent == passes = 2 => twice = once

\* both legacy names were renamed by the first pass, beside a column that
\* already had the canonical name
C8_Witness ==
    /\ passes = 2
    /\ columns = <<"repo_nwo", "first_claude_commit", "nwo">>
    /\ once = <<"nwo", "first_use_date", "nwo">>
    /\ twice = once

\* the three scripts have run on the pair of datasets, the export with a result
Summarized == stage = "aggregated" /\ web.exc = "none"

\* the entry of industry code c in the exported structure
EntryOf(c) == CHOOSE e \in Range(web.val.industries) : e.code = c

\* C11: on the same pair of datasets, whenever export_web_data produces its
\* structure, (a) its months are the months of the table of
\* plot_industry_adoption.aggregate_by_month_industry, in the same order,
\* its industries are that table's columns and each industry's monthly
\* counts are that column's cells; (b) generate_monthly_adoption has one row
\* per month of the table, in the same order, whose new_repos is the sum over
\* the industries of the month's counts; and (c) the cumulative_repos of its
\* last row is the exported total_repos.
C11_ScriptsAgree ==
    Summarized =>
        /\ web.val.months = [k \in 1..Len(monthly.index) |-> PeriodStr(monthly.index[k])]
        /\ {e.code : e \in Range(web.val.industries)} = Range(monthly.columns)
        /\ Len(web.val.industries) = Len(monthly.columns)
        /\ \A c \in Range(monthly.columns) :
              EntryOf(c).monthly = [k \in 1..Len(monthly.index) |-> monthly.cell[monthly.index[k], c]]
        /\ adoption.exc = "none"
        /\ Len(adoption.val) = Len(monthly.index)
        /\ \A k \in 1..Len(monthly.index) :
              /\ adoption.val[k].month = PeriodStr(monthly.index[k])
              /\ adoption.val[k].new_repos = RowSum(monthly, monthly.index[k])
        /\ adoption.val # <<>>
        /\ adoption.val[Len(adoption.val)].cumulative_repos = web.val.total_repos

\* three repositories over two months and two industries, the first month
\* being 2023-12 only after the conversion to UTC: one new repository, then
\* two, three in all
C11_Witness ==
    /\ Summarized /\ ValidInputs
    /\ first_use.tz = 1
    /\ first_use.rows = <<[nwo |-> "A", wall |-> 2], [nwo |-> "B", wall |-> 4],
                          [nwo |-> "C", wall |-> 4]>>
    /\ predictions.rows = <<[nwo |-> "A", naics |-> "54"], [nwo |-> "B", naics |-> "62"],
                            [nwo |-> "C", naics |-> "54"]>>
    /\ monthly.index = <<0, 1>> /\ monthly.columns = <<"54", "62">>
    /\ adoption = Ok(<<[month |-> <<2023, 12>>, new_repos |-> 1, cumulative_repos |-> 1],
                       [month |-> <<2024, 1>>, new_repos |-> 2, cumulative_repos |-> 3]>>)
    /\ web.val.total_repos = 3

=============================================================================
